---- MODULE Spec2Model ----
(***************************************************************************)
(* Monitor framework of dev/src/utils/monitors: the sampling-loop          *)
(* lifecycle of SuperMonitor (start / stop / _monitoring_loop / context    *)
(* manager), the MetricsPublisher mixin and BucketMonitor's transfer       *)
(* thread.  Every action is one interleaving point of the Python code (a   *)
(* statement that reads or writes state shared between threads).           *)
(***************************************************************************)
EXTENDS Integers, Sequences, FiniteSets, TLC

(* ---------------------------- bounds ----------------------------------- *)
MaxThreads == 3      \* threading.Thread objects one monitor creates
MaxCalls == 4        \* API calls begun by the calling threads
MaxStep == 2         \* successful iterations of one sampling loop
MaxCallsConc == 2    \* API calls begun when two threads call concurrently
MaxStepConc == 1     \* successful iterations of one loop, concurrent callers
MaxThreadsConc == 2  \* Thread objects created, concurrent callers
MaxSubs == 3         \* callbacks ever subscribed to one publisher
MaxOps == 5          \* publisher operations begun
MaxCallsProbe == 3   \* API calls begun on a BucketMonitor
MaxStepProbe == 1    \* successful iterations of a BucketMonitor's sampling loop
MaxThreadsProbe == 2 \* sampling Thread objects a BucketMonitor creates
MaxProbes == 12      \* transfer-test results one run appends
FlushThreshold == 10 \* if len(results) >= 10: self._save_transfer_results(results)
MaxMonitors == 3     \* monitors held by the registry of start_monitoring.py
MaxDriverCalls == 2  \* calls of start_monitoring() / stop_monitoring()
MaxQueries == 8      \* calls made on one CloudMonitoringClient
MaxCallsLive == 3    \* API calls begun, liveness checks
MaxStepLive == 1     \* successful iterations of one loop, liveness checks
MaxThreadsLive == 2  \* Thread objects created, liveness checks
MaxInterval == 1     \* sampling_interval, in ticks
MaxElapsed == 2      \* time one iteration's body takes, in ticks
MaxSamples == 4      \* calls of TPUMonitor.get_metrics, over all threads
MaxIntervalTicks == 3 \* sampling_interval of the timed loop, in ticks
MaxElapsedTicks == 4 \* time one iteration's body takes in the timed loop
MaxIterations == 3   \* iterations of the timed loop

VARIABLES
    enabled,            \* self.enabled
    sampling_interval,  \* self.sampling_interval
    monitoring_thread,  \* self.monitoring_thread (0 is None, else a thread id)
    stop_event,         \* self.stop_event: the flag of the threading.Event
    thr,                \* the Thread objects running _monitoring_loop
    sink,               \* the TensorBoard writer: last step written, and the
                        \* largest step written before it (-1: none)
    callers,            \* the threads that call the monitor's API
    call,               \* per calling thread: position inside the call it makes
    calls,              \* number of API calls begun
    bound,              \* exploration limits of the run: calls and loop steps
    subscribers,        \* MetricsPublisher._subscribers: callbacks, None for removed
    lock,               \* MetricsPublisher._lock: the thread holding it, or "free"
    pth,                \* per thread using the publisher: its position
    got,                \* per slot: calls of its callback by the publish under way
    live0,              \* slots holding a callback when that publish took the lock
    ops,                \* publisher operations begun
    wk,                 \* BucketMonitor.transfer_thread: the thread running
                        \* _monitoring_worker, with its local list results (buf:
                        \* its length)
    stop_transfer_test, \* BucketMonitor.stop_transfer_test
    last_probe,         \* the result dict the last time_gcs_operation call
                        \* returned, with the temporary artifacts it left behind
    store,              \* transfer results: appended to a buffer, written by
                        \* _save_transfer_results, dropped by a failed write
    monitors,           \* start_monitoring.py: the module's global dict monitors,
                        \* as the sequence of its values in insertion order
    comp,               \* per registered monitor: is its loop running, and what
                        \* its stop() does when it is
    drv,                \* the thread calling start_monitoring / stop_monitoring
    cloud_monitor,      \* self.cloud_monitor: the CloudMonitoringClient, with
                        \* the history of the calls made on it
    tpu_env,            \* TPUMonitor: which thread last assigned
                        \* self.prev_net_io and self.prev_net_time, and where
                        \* each thread is in get_metrics
    clk                 \* _monitoring_loop with time: the clock and the locals
                        \* start_time, elapsed, sleep_time

monVars == <<enabled, sampling_interval, monitoring_thread, stop_event, thr,
             sink, callers, call, calls, bound>>

pubVars == <<subscribers, lock, pth, got, live0, ops>>

probeVars == <<wk, stop_transfer_test, store, last_probe>>

regVars == <<monitors, comp, drv>>

cloudVars == <<cloud_monitor>>

envVars == <<tpu_env>>

clockVars == <<clk>>

(* What the actions of one component leave alone.                           *)
outsideMon == <<pubVars, probeVars, regVars, cloudVars, envVars, clockVars>>
outsidePub == <<monVars, probeVars, regVars, cloudVars, envVars, clockVars>>
outsideProbe == <<pubVars, regVars, cloudVars, envVars, clockVars>>
outsideReg == <<monVars, pubVars, probeVars, cloudVars, envVars, clockVars>>
outsideCloud == <<monVars, pubVars, probeVars, regVars, envVars, clockVars>>
outsideEnv == <<monVars, pubVars, probeVars, regVars, cloudVars, clockVars>>
outsideClock == <<monVars, pubVars, probeVars, regVars, cloudVars, envVars>>

vars == <<monVars, pubVars, probeVars, regVars, cloudVars, envVars, clockVars>>

Tids == 1..MaxThreads
AllCallers == {1, 2}
Intervals == 0..MaxInterval

(* A Thread object: "none" not yet constructed, "new" constructed and not   *)
(* started, then "alive" until the target function returns ("dead").        *)
(* failed: the loop's last iteration ended in its except clause (the error  *)
(* it logged); sr: a stop() has reported this thread as outliving its join. *)
NoThread == [st |-> "none", pc |-> "top", step |-> 0, failed |-> FALSE,
             sr |-> FALSE]

(* The loop function has returned: its local step is gone.                  *)
DeadThread == [NoThread EXCEPT !.st = "dead", !.pc = "end"]

(* A calling thread: pc its position, op/ret/path the call it makes or made *)
(* last, its value and the branch it returned by; ctx/braise the with       *)
(* statement it is in and whether the body raised; ent: __enter__ launched  *)
(* a thread; jt the thread it joins; pop/pret the call before.              *)
IdleCall == [pc |-> "idle", op |-> "none", ret |-> "none", path |-> "none",
             ctx |-> "none", braise |-> FALSE, ent |-> FALSE, jt |-> 0,
             pop |-> "none", pret |-> "none"]

(* The branches stop() returns by.                                          *)
StopPaths == {"notrunning", "stopped", "timeout", "joinfail"}

(* self.transfer_thread = None                                              *)
NoWorker == [st |-> "none", pc |-> "top", buf |-> 0]

(* self.last_transfer_results = None: no probe has run.  A result has the   *)
(* operation, its status, and what the call left behind: local (the scratch *)
(* file under /tmp/gcs_test), remote (the object it copied to the bucket),  *)
(* cleaned (the cleanup block ran); how is what happened during the call.   *)
NoProbe == [op |-> "none", how |-> "none", status |-> "none",
            local |-> FALSE, remote |-> FALSE, cleaned |-> FALSE]

(* What can happen during one time_gcs_operation call of a monitor that has *)
(* a bucket name: dd fails to create the test file (upload only), gsutil cp *)
(* fails, an exception is raised between the copy and the cleanup, the      *)
(* cleanup removes everything, or its removals fail.                        *)
ProbeOutcomes(operation) ==
    IF operation = "upload"
    THEN {"ddfail", "cpfail", "raised", "clean", "rmfail"}
    ELSE {"cpfail", "raised", "clean", "rmfail"}

(* time_gcs_operation(operation, cleanup=True, profile=True): the dict it   *)
(* returns.  A failing dd or copy returns the error result at once, before  *)
(* the cleanup block; an exception ends in the outer except clause, which   *)
(* sets status "error"; the cleanup block logs a removal that fails.        *)
TimeGcsOperation(operation, how) ==
    IF how = "ddfail"
    THEN [op |-> operation, how |-> how, status |-> "error",
          local |-> FALSE, remote |-> FALSE, cleaned |-> FALSE]
    ELSE IF how = "cpfail"
    THEN [op |-> operation, how |-> how, status |-> "error",
          local |-> (operation = "upload"), remote |-> FALSE, cleaned |-> FALSE]
    ELSE IF how = "raised"
    THEN [op |-> operation, how |-> how, status |-> "error",
          local |-> TRUE, remote |-> (operation = "upload"), cleaned |-> FALSE]
    ELSE IF how = "clean"
    THEN [op |-> operation, how |-> how, status |-> "success",
          local |-> FALSE, remote |-> FALSE, cleaned |-> TRUE]
    ELSE [op |-> operation, how |-> how, status |-> "success",
          local |-> TRUE, remote |-> (operation = "upload"), cleaned |-> TRUE]

(* What stop() of a registered monitor does when its loop is running: the   *)
(* thread ends within the join ("clean"), outlives it ("timeout"), or the   *)
(* call raises (an implementation of MonitorInterface other than            *)
(* SuperMonitor's).                                                         *)
StopBehaviours == {"clean", "timeout", "raise"}

(* The caller of the module's functions, outside them.                      *)
IdleDriver == [pc |-> "idle", op |-> "none", ret |-> "none", i |-> 0,
               success |-> TRUE, res |-> <<>>, n |-> 0]

(* Thread.is_alive() of the object a reference m designates (None: falsy).  *)
IsAlive(m) == m # 0 /\ thr[m].st = "alive"

AliveThreads == {t \in Tids : thr[t].st = "alive"}

Created == Cardinality({t \in Tids : thr[t].st # "none"})

(* Calls that have passed the is_alive test of start() and still have to    *)
(* construct their Thread object.                                           *)
PendingNew == Cardinality({c \in callers : call[c].pc \in {"s_enabled", "s_alive", "s_clear", "s_new"}})

Max(a, b) == IF a >= b THEN a ELSE b

(* The threads that call a TPUMonitor's get_metrics: its sampling loop, and *)
(* an application thread (get_metrics(), record_metrics() without metrics,  *)
(* save_metrics_for_api()).                                                 *)
EnvThreads == {"loop", "app"}

(* A TPUMonitor after __init__: prev_net_io and prev_net_time are not yet   *)
(* attributes of the object; no thread is inside get_metrics.               *)
NoEnv == [prev_net_io |-> "unset", prev_net_time |-> "unset",
          pc |-> [th \in EnvThreads |-> "idle"], n |-> 0]

(* The loop thread entering _monitoring_loop at time 0.  prev_start and     *)
(* prev_elapsed remember the previous iteration's start_time and elapsed.   *)
NoClock == [pc |-> "top", now |-> 0, start_time |-> 0, elapsed |-> 0,
            sleep_time |-> 0, prev_start |-> 0, prev_elapsed |-> 0, n |-> 0]

(* The wait as time.sleep(self.sampling_interval), whatever the iteration   *)
(* took.                                                                    *)
SleepTime_Fixed(interval, elapsed) == interval

(* sleep_time = max(0, self.sampling_interval - elapsed)                    *)
SleepTime(interval, elapsed) == Max(0, interval - elapsed)

(* ----------------------------- publisher ------------------------------- *)
(* The threads that use one publisher: the sampling loop, which publishes, *)
(* and an application thread.                                               *)
PubThreads == {"loop", "app"}

(* What a subscribed callback does when called with a batch: return, raise  *)
(* an Exception, or call remove_subscriber(arg) on the publisher.           *)
Behaviours == {"ok", "raise", "unsub"}

None == [cb |-> 0, beh |-> "none", arg |-> 0]

IsNone(slot) == slot.cb = 0

(* pc: "idle", "publishing" (inside publish_metrics, holding the lock, at   *)
(* list position idx), "in_cb" (inside a callback that calls                *)
(* remove_subscriber(tok)), "raised" (publish_metrics left by exception).   *)
(* tok/res: the argument or value of the thread's last call; n: the number  *)
(* of that call among the publisher's operations.                           *)
IdlePub == [pc |-> "idle", idx |-> 0, tok |-> 0, res |-> "none", n |-> 0]

(* ------------------------- call bookkeeping ----------------------------- *)
(* A call by c begins: remember the previous call's outcome.                *)
BeginCall(c, o, first, cx) ==
    /\ call[c].pc = "idle"
    /\ calls < bound.calls
    /\ calls' = calls + 1
    /\ call' = [call EXCEPT ![c] = [pc |-> first, op |-> o, ret |-> "none",
                                    path |-> "none", ctx |-> cx, braise |-> FALSE,
                                    ent |-> FALSE, jt |-> 0,
                                    pop |-> call[c].op, pret |-> call[c].ret]]

(* start() leaves with value r (log message p).  Inside __enter__ the       *)
(* with-block's body runs next; an exception leaves the with statement      *)
(* without __exit__.                                                        *)
StartReturns(c, r, p) ==
    IF call[c].ctx = "enter"
    THEN IF r = "raise"
         THEN [call[c] EXCEPT !.pc = "idle", !.op = "with", !.ret = "raise",
                              !.path = "enterfail", !.ctx = "none", !.jt = 0]
         ELSE [call[c] EXCEPT !.pc = "body", !.ret = r, !.path = p, !.ctx = "body"]
    ELSE [call[c] EXCEPT !.pc = "idle", !.ret = r, !.path = p]

(* stop() leaves with value r (log message p).  Inside __exit__ the with    *)
(* statement ends; __exit__ returns None, so an exception of the body       *)
(* (braise) is re-raised after it.                                          *)
StopReturns(c, r, p) ==
    IF call[c].ctx = "exit"
    THEN [call[c] EXCEPT !.pc = "idle", !.op = "with", !.path = p, !.ctx = "none",
                         !.ret = r, !.jt = 0]
    ELSE [call[c] EXCEPT !.pc = "idle", !.ret = r, !.path = p, !.jt = 0]

(* ------------------------------ Init ----------------------------------- *)
(* MetricsPublisher.__init__                                                *)
InitPublisher ==
    /\ subscribers = <<>>
    /\ lock = "free"
    /\ pth = [th \in PubThreads |-> IdlePub]
    /\ got = [i \in 1..MaxSubs |-> 0]
    /\ live0 = {}
    /\ ops = 0

(* BucketMonitor.__init__: the transfer-test state                          *)
InitTransfer ==
    /\ wk = NoWorker
    /\ stop_transfer_test = FALSE
    /\ last_probe = NoProbe
    /\ store = [appended |-> 0, persisted |-> 0, lost |-> 0, batches |-> 0]

(* start_monitoring.py line 66: monitors = {}  (nothing registered)         *)
InitRegistry ==
    /\ monitors = <<>>
    /\ comp = [m \in 1..MaxMonitors |-> [running |-> FALSE, onstop |-> "clean"]]
    /\ drv = IdleDriver

(* CloudMonitoringClient.__init__(project_id): libs is                      *)
(* CLOUD_MONITORING_AVAILABLE (the google.cloud imports succeeded), made    *)
(* whether monitoring_v3.MetricServiceClient() returned rather than raised, *)
(* project whether a project id was given.  The other fields are history:   *)
(* initfail (initialisation failed), queries (get_metric_data calls),       *)
(* contacts (list_time_series requests sent), ret (what the last            *)
(* get_metric_data returned), unreachable (a request found the backend      *)
(* unreachable), avail (what the last is_available() returned).             *)
CloudMonitoringClient(libs, made, project) ==
    [available |-> libs,
     client |-> libs /\ made,
     project_name |-> libs /\ made /\ project,
     initfail |-> ~(libs /\ made),
     queries |-> 0, contacts |-> 0, ret |-> "none", unreachable |-> FALSE,
     avail |-> "none"]

(* SuperMonitor.__init__: the sampling state, and _setup_cloud_monitoring   *)
(* (here on a host without the google.cloud libraries).                     *)
InitTpuEnv == tpu_env = NoEnv

InitClock == clk = NoClock

InitMonitor ==
    /\ enabled \in BOOLEAN
    /\ sampling_interval \in Intervals
    /\ monitoring_thread = 0
    /\ stop_event = FALSE
    /\ thr = [t \in Tids |-> NoThread]
    /\ sink = [last |-> -1, prev |-> -1]
    /\ call = [c \in AllCallers |-> IdleCall]
    /\ calls = 0
    /\ cloud_monitor = CloudMonitoringClient(FALSE, FALSE, FALSE)

Init ==
    /\ InitMonitor
    /\ InitPublisher
    /\ InitTpuEnv
    /\ InitClock
    /\ InitTransfer
    /\ InitRegistry
    /\ callers = {1}
    /\ bound = [calls |-> MaxCalls, steps |-> MaxStep, threads |-> MaxThreads]

InitConc ==
    /\ InitMonitor
    /\ InitPublisher
    /\ InitTpuEnv
    /\ InitClock
    /\ InitTransfer
    /\ InitRegistry
    /\ callers = AllCallers
    /\ bound = [calls |-> MaxCallsConc, steps |-> MaxStepConc, threads |-> MaxThreadsConc]

(* --------------------------- SuperMonitor.start ------------------------- *)
CallStart(c) ==
    /\ Created + PendingNew < bound.threads
    /\ BeginCall(c, "start", "s_enabled", "none")
    /\ UNCHANGED <<enabled, sampling_interval, monitoring_thread, stop_event, thr, sink, callers, bound, outsideMon>>

(* start() without its enabled test: a disabled monitor is started like an  *)
(* enabled one.                                                             *)
StartEnabled_NoTest(c) ==
    /\ call[c].pc = "s_enabled"
    /\ call' = [call EXCEPT ![c].pc = "s_alive"]
    /\ UNCHANGED <<enabled, sampling_interval, monitoring_thread, stop_event, thr, sink, callers, calls, bound, outsideMon>>

(* if not self.enabled: return False                                        *)
StartEnabled(c) ==
    /\ call[c].pc = "s_enabled"
    /\ call' = [call EXCEPT ![c] =
                  IF ~enabled THEN StartReturns(c, "false", "disabled")
                  ELSE [call[c] EXCEPT !.pc = "s_alive"]]
    /\ UNCHANGED <<enabled, sampling_interval, monitoring_thread, stop_event, thr, sink, callers, calls, bound, outsideMon>>

(* start() without its already-running test: every call goes on to clear   *)
(* the event and launch a thread.                                           *)
StartAliveCheck_NoTest(c) ==
    /\ call[c].pc = "s_alive"
    /\ call' = [call EXCEPT ![c].pc = "s_clear"]
    /\ UNCHANGED <<enabled, sampling_interval, monitoring_thread, stop_event, thr, sink, callers, calls, bound, outsideMon>>

(* if self.monitoring_thread and self.monitoring_thread.is_alive(): return True *)
StartAliveCheck(c) ==
    /\ call[c].pc = "s_alive"
    /\ call' = [call EXCEPT ![c] =
                  IF IsAlive(monitoring_thread) THEN StartReturns(c, "true", "already")
                  ELSE [call[c] EXCEPT !.pc = "s_clear"]]
    /\ UNCHANGED <<enabled, sampling_interval, monitoring_thread, stop_event, thr, sink, callers, calls, bound, outsideMon>>

(* start() without self.stop_event.clear(): the signal of the last stop()   *)
(* is still set when the new thread is launched.                            *)
StartClear_NoClear(c) ==
    /\ call[c].pc = "s_clear"
    /\ stop_event' = stop_event
    /\ call' = [call EXCEPT ![c].pc = "s_new"]
    /\ UNCHANGED <<enabled, sampling_interval, monitoring_thread, thr, sink, callers, calls, bound, outsideMon>>

(* self.stop_event.clear()                                                  *)
StartClear(c) ==
    /\ call[c].pc = "s_clear"
    /\ stop_event' = FALSE
    /\ call' = [call EXCEPT ![c].pc = "s_new"]
    /\ UNCHANGED <<enabled, sampling_interval, monitoring_thread, thr, sink, callers, calls, bound, outsideMon>>

(* self.monitoring_thread = threading.Thread(target=self._monitoring_loop)  *)
StartNewThread(c) ==
    /\ call[c].pc = "s_new"
    /\ Created < bound.threads
    /\ LET t == Created + 1 IN
         /\ thr' = [thr EXCEPT ![t] = [NoThread EXCEPT !.st = "new"]]
         /\ monitoring_thread' = t
    /\ call' = [call EXCEPT ![c].pc = "s_daemon"]
    /\ UNCHANGED <<enabled, sampling_interval, stop_event, sink, callers, calls, bound, outsideMon>>

(* self.monitoring_thread.daemon = True: outside the try; the setter raises *)
(* RuntimeError on a thread that has been started.                          *)
StartDaemon(c) ==
    /\ call[c].pc = "s_daemon"
    /\ call' = [call EXCEPT ![c] =
                  IF thr[monitoring_thread].st = "new"
                  THEN [call[c] EXCEPT !.pc = "s_start"]
                  ELSE StartReturns(c, "raise", "daemonfail")]
    /\ UNCHANGED <<enabled, sampling_interval, monitoring_thread, stop_event, thr, sink, callers, calls, bound, outsideMon>>

(* try: self.monitoring_thread.start(); return True                         *)
(* except Exception: return False  (start() of a started thread raises)     *)
StartLaunch(c) ==
    /\ call[c].pc = "s_start"
    /\ IF thr[monitoring_thread].st = "new"
       THEN /\ thr' = [thr EXCEPT ![monitoring_thread].st = "alive"]
            /\ call' = [call EXCEPT ![c] = [StartReturns(c, "true", "launched")
                                              EXCEPT !.ent = (call[c].ctx = "enter")]]
       ELSE /\ thr' = thr
            /\ call' = [call EXCEPT ![c] = StartReturns(c, "false", "startfail")]
    /\ UNCHANGED <<enabled, sampling_interval, monitoring_thread, stop_event, sink, callers, calls, bound, outsideMon>>

(* --------------------------- SuperMonitor.stop -------------------------- *)
CallStop(c) ==
    /\ BeginCall(c, "stop", "p_check", "none")
    /\ UNCHANGED <<enabled, sampling_interval, monitoring_thread, stop_event, thr, sink, callers, bound, outsideMon>>

(* stop() testing only "if not self.monitoring_thread": a thread that has  *)
(* ended is signalled and joined again.                                     *)
StopCheck_NoAliveTest(c) ==
    /\ call[c].pc = "p_check"
    /\ call' = [call EXCEPT ![c] =
                  IF monitoring_thread = 0 THEN StopReturns(c, "true", "notrunning")
                  ELSE [call[c] EXCEPT !.pc = "p_set"]]
    /\ UNCHANGED <<enabled, sampling_interval, monitoring_thread, stop_event, thr, sink, callers, calls, bound, outsideMon>>

(* if not self.monitoring_thread or not self.monitoring_thread.is_alive():  *)
(*     return True                                                          *)
StopCheck(c) ==
    /\ call[c].pc = "p_check"
    /\ call' = [call EXCEPT ![c] =
                  IF ~IsAlive(monitoring_thread) THEN StopReturns(c, "true", "notrunning")
                  ELSE [call[c] EXCEPT !.pc = "p_set"]]
    /\ UNCHANGED <<enabled, sampling_interval, monitoring_thread, stop_event, thr, sink, callers, calls, bound, outsideMon>>

(* self.stop_event.set()                                                    *)
StopSet(c) ==
    /\ call[c].pc = "p_set"
    /\ stop_event' = TRUE
    /\ call' = [call EXCEPT ![c].pc = "p_join"]
    /\ UNCHANGED <<enabled, sampling_interval, monitoring_thread, thr, sink, callers, calls, bound, outsideMon>>

(* try: self.monitoring_thread.join(timeout=5) is entered: the reference is *)
(* read now; join() of a thread that was not started raises RuntimeError,   *)
(* which the except clause turns into return False.                         *)
StopJoinBegin(c) ==
    /\ call[c].pc = "p_join"
    /\ call' = [call EXCEPT ![c] =
                  IF thr[monitoring_thread].st = "new"
                  THEN StopReturns(c, "false", "joinfail")
                  ELSE [call[c] EXCEPT !.pc = "p_joining", !.jt = monitoring_thread]]
    /\ UNCHANGED <<enabled, sampling_interval, monitoring_thread, stop_event, thr, sink, callers, calls, bound, outsideMon>>

(* join(timeout=5) returns: the thread has ended, or the five seconds are   *)
(* over while it is still alive.                                            *)
StopJoinEnd(c) ==
    /\ call[c].pc = "p_joining"
    /\ call' = [call EXCEPT ![c].pc = "p_alive"]
    /\ UNCHANGED <<enabled, sampling_interval, monitoring_thread, stop_event, thr, sink, callers, calls, bound, outsideMon>>

(* stop() that withdraws its request when the join timed out: the timeout  *)
(* branch clears the event before it returns False.                         *)
StopAliveCheck_ClearOnTimeout(c) ==
    /\ call[c].pc = "p_alive"
    /\ IF IsAlive(monitoring_thread)
       THEN /\ call' = [call EXCEPT ![c] = StopReturns(c, "false", "timeout")]
            /\ thr' = [thr EXCEPT ![monitoring_thread].sr = TRUE]
            /\ stop_event' = FALSE
       ELSE /\ call' = [call EXCEPT ![c] = StopReturns(c, "true", "stopped")]
            /\ thr' = thr
            /\ stop_event' = stop_event
    /\ UNCHANGED <<enabled, sampling_interval, monitoring_thread, sink, callers, calls, bound, outsideMon>>

(* if self.monitoring_thread.is_alive(): return False   else: return True   *)
(* sr records, per thread, that a stop() has reported it as outliving the   *)
(* join (the warning "did not terminate gracefully").                       *)
StopAliveCheck(c) ==
    /\ call[c].pc = "p_alive"
    /\ IF IsAlive(monitoring_thread)
       THEN /\ call' = [call EXCEPT ![c] = StopReturns(c, "false", "timeout")]
            /\ thr' = [thr EXCEPT ![monitoring_thread].sr = TRUE]
       ELSE /\ call' = [call EXCEPT ![c] = StopReturns(c, "true", "stopped")]
            /\ thr' = thr
    /\ UNCHANGED <<enabled, sampling_interval, monitoring_thread, stop_event, sink, callers, calls, bound, outsideMon>>

(* ------------------- SuperMonitor.__enter__ / __exit__ ------------------ *)
(* with monitor: ...   __enter__ calls self.start()                         *)
CallWith(c) ==
    /\ Created + PendingNew < bound.threads
    /\ BeginCall(c, "with", "s_enabled", "enter")
    /\ UNCHANGED <<enabled, sampling_interval, monitoring_thread, stop_event, thr, sink, callers, bound, outsideMon>>

(* The body of the with statement ends, normally or by raising; either way  *)
(* __exit__ runs and calls self.stop().                                     *)
WithBody(c) ==
    /\ call[c].pc = "body"
    /\ \E raised \in BOOLEAN :
         call' = [call EXCEPT ![c] = [@ EXCEPT !.pc = "p_check", !.ctx = "exit",
                                               !.braise = raised]]
    /\ UNCHANGED <<enabled, sampling_interval, monitoring_thread, stop_event, thr, sink, callers, calls, bound, outsideMon>>

(* ----------------------- SuperMonitor._monitoring_loop ------------------ *)
(* while not self.stop_event.is_set():   (else the function returns)        *)
LoopTop(t) ==
    /\ thr[t].st = "alive" /\ thr[t].pc = "top"
    /\ thr' = [thr EXCEPT ![t] = IF stop_event
                                  THEN DeadThread
                                  ELSE [@ EXCEPT !.pc = "collect"]]
    /\ UNCHANGED <<enabled, sampling_interval, monitoring_thread, stop_event, sink, callers, call, calls, bound, outsideMon>>

(* The loop without the try around one iteration: an exception of          *)
(* get_metrics reaches the outer except clause and the function returns.    *)
LoopCollect_NoInnerTry(t) ==
    /\ thr[t].st = "alive" /\ thr[t].pc = "collect"
    /\ \E ok \in BOOLEAN :
         /\ ok => thr[t].step < bound.steps
         /\ thr' = [thr EXCEPT ![t] = IF ok THEN [@ EXCEPT !.pc = "record"]
                                       ELSE DeadThread]
    /\ UNCHANGED <<enabled, sampling_interval, monitoring_thread, stop_event, sink, callers, call, calls, bound, outsideMon>>

(* metrics = self.get_metrics(): returns, or raises into the except clause  *)
(* of the iteration, which logs and falls through to the sleep.             *)
LoopCollect(t) ==
    /\ thr[t].st = "alive" /\ thr[t].pc = "collect"
    /\ \E ok \in BOOLEAN :
         /\ ok => thr[t].step < bound.steps
         /\ thr' = [thr EXCEPT ![t] = IF ok THEN [@ EXCEPT !.pc = "record"]
                                       ELSE [@ EXCEPT !.pc = "wait", !.failed = TRUE]]
    /\ UNCHANGED <<enabled, sampling_interval, monitoring_thread, stop_event, sink, callers, call, calls, bound, outsideMon>>

(* The loop with a record_metrics that lets the writer's exception out: it  *)
(* reaches the except clause of the iteration, which skips the publish and  *)
(* the increment.                                                           *)
LoopRecord_Propagates(t) ==
    /\ thr[t].st = "alive" /\ thr[t].pc = "record"
    /\ \E written \in BOOLEAN :
         /\ sink' = IF written
                    THEN [last |-> thr[t].step, prev |-> Max(sink.prev, sink.last)]
                    ELSE sink
         /\ thr' = [thr EXCEPT ![t] = IF written THEN [@ EXCEPT !.pc = "publish"]
                                       ELSE [@ EXCEPT !.pc = "wait", !.failed = TRUE]]
    /\ UNCHANGED <<enabled, sampling_interval, monitoring_thread, stop_event, callers, call, calls, bound, outsideMon>>

(* self.record_metrics(metrics, step): the scalar is written with the       *)
(* loop's step, or the write fails and the error is logged inside           *)
(* record_metrics.                                                          *)
LoopRecord(t) ==
    /\ thr[t].st = "alive" /\ thr[t].pc = "record"
    /\ \E written \in BOOLEAN :
         sink' = IF written
                 THEN [last |-> thr[t].step, prev |-> Max(sink.prev, sink.last)]
                 ELSE sink
    /\ thr' = [thr EXCEPT ![t].pc = "publish"]
    /\ UNCHANGED <<enabled, sampling_interval, monitoring_thread, stop_event, callers, call, calls, bound, outsideMon>>

(* self.publish_metrics(metrics, datetime.now()); step += 1                 *)
LoopPublish(t) ==
    /\ thr[t].st = "alive" /\ thr[t].pc = "publish"
    /\ thr' = [thr EXCEPT ![t] = [@ EXCEPT !.pc = "wait", !.step = @ + 1, !.failed = FALSE]]
    /\ UNCHANGED <<enabled, sampling_interval, monitoring_thread, stop_event, sink, callers, call, calls, bound, outsideMon>>

(* The loop sleeping with time.sleep(sleep_time) instead of                 *)
(* stop_event.wait(sleep_time): the sleep does not see the signal and the   *)
(* loop continues at its top.                                               *)
LoopWait_Sleeps(t) ==
    /\ thr[t].st = "alive" /\ thr[t].pc = "wait"
    /\ \E elapsed \in 0..MaxElapsed :
         thr' = [thr EXCEPT ![t].pc =
                   IF SleepTime(sampling_interval, elapsed) > 0
                   THEN "top" ELSE "brk"]
    /\ UNCHANGED <<enabled, sampling_interval, monitoring_thread, stop_event, sink, callers, call, calls, bound, outsideMon>>

(* elapsed = time.time() - start_time; sleep_time = max(0, interval-elapsed)*)
(* if sleep_time > 0 and not self.stop_event.wait(sleep_time): continue     *)
LoopWait(t) ==
    /\ thr[t].st = "alive" /\ thr[t].pc = "wait"
    /\ \E elapsed \in 0..MaxElapsed :
         thr' = [thr EXCEPT ![t].pc =
                   IF SleepTime(sampling_interval, elapsed) > 0 /\ ~stop_event
                   THEN "top" ELSE "brk"]
    /\ UNCHANGED <<enabled, sampling_interval, monitoring_thread, stop_event, sink, callers, call, calls, bound, outsideMon>>

(* else: if self.stop_event.is_set(): break                                 *)
LoopBreak(t) ==
    /\ thr[t].st = "alive" /\ thr[t].pc = "brk"
    /\ thr' = [thr EXCEPT ![t] = IF stop_event
                                  THEN DeadThread
                                  ELSE [@ EXCEPT !.pc = "top"]]
    /\ UNCHANGED <<enabled, sampling_interval, monitoring_thread, stop_event, sink, callers, call, calls, bound, outsideMon>>

(* One step of the thread running _monitoring_loop.                         *)
LoopStep(t) ==
    \/ LoopTop(t)
    \/ LoopCollect(t)
    \/ LoopRecord(t)
    \/ LoopPublish(t)
    \/ LoopWait(t)
    \/ LoopBreak(t)

(* ---------------------------- MetricsPublisher -------------------------- *)
(* add_subscriber: with self._lock: id = len(list); append; return id       *)
AddSubscriber(th) ==
    /\ pth[th].pc = "idle"
    /\ lock = "free"
    /\ ops < MaxOps
    /\ Len(subscribers) < MaxSubs
    /\ \E b \in Behaviours, a \in 0..(MaxSubs - 1) :
         /\ (b # "unsub") => a = 0
         /\ subscribers' = Append(subscribers,
                                  [cb |-> Len(subscribers) + 1, beh |-> b, arg |-> a])
    /\ pth' = [pth EXCEPT ![th].res = "id", ![th].tok = Len(subscribers), ![th].n = ops + 1]
    /\ ops' = ops + 1
    /\ UNCHANGED <<lock, got, live0, outsidePub>>

(* remove_subscriber testing only "subscriber_id < len(self._subscribers)": *)
(* a negative id indexes the list from its end.                             *)
RemoveSubscriber_NoLowerBound(th) ==
    /\ lock = "free"
    /\ \E k \in -1..MaxSubs :
         /\ \/ pth[th].pc = "idle" /\ ops < MaxOps
            \/ pth[th].pc = "in_cb" /\ k = pth[th].tok
         /\ subscribers' = IF 0 <= k /\ k < Len(subscribers)
                           THEN [subscribers EXCEPT ![k + 1] = None]
                           ELSE IF k < 0 /\ Len(subscribers) > 0
                           THEN [subscribers EXCEPT ![Len(subscribers)] = None]
                           ELSE subscribers
         /\ pth' = [pth EXCEPT ![th] =
                      [pc |-> IF pth[th].pc = "in_cb" THEN "publishing" ELSE "idle",
                       idx |-> pth[th].idx, tok |-> k,
                       res |-> IF k < Len(subscribers) /\ Len(subscribers) > 0 THEN "true" ELSE "false",
                       n |-> IF pth[th].pc = "idle" THEN ops + 1 ELSE pth[th].n]]
    /\ ops' = IF pth[th].pc = "idle" THEN ops + 1 ELSE ops
    /\ UNCHANGED <<lock, got, live0, outsidePub>>

(* remove_subscriber deleting the entry (del self._subscribers[id]) instead *)
(* of overwriting it: the entries after it move down by one.                *)
RemoveSubscriber_Compact(th) ==
    /\ lock = "free"
    /\ \E k \in -1..MaxSubs :
         /\ \/ pth[th].pc = "idle" /\ ops < MaxOps
            \/ pth[th].pc = "in_cb" /\ k = pth[th].tok
         /\ subscribers' = IF 0 <= k /\ k < Len(subscribers)
                           THEN SubSeq(subscribers, 1, k) \o SubSeq(subscribers, k + 2, Len(subscribers))
                           ELSE subscribers
         /\ pth' = [pth EXCEPT ![th] =
                      [pc |-> IF pth[th].pc = "in_cb" THEN "publishing" ELSE "idle",
                       idx |-> pth[th].idx, tok |-> k,
                       res |-> IF 0 <= k /\ k < Len(subscribers) THEN "true" ELSE "false",
                       n |-> IF pth[th].pc = "idle" THEN ops + 1 ELSE pth[th].n]]
    /\ ops' = IF pth[th].pc = "idle" THEN ops + 1 ELSE ops
    /\ UNCHANGED <<lock, got, live0, outsidePub>>

(* remove_subscriber(subscriber_id): with self._lock: a slot in range is    *)
(* set to None and True returned, else False.  Called by a thread from its  *)
(* own code (pc "idle", any id) or from inside a callback (pc "in_cb"); the *)
(* with statement waits until the lock is free.                             *)
RemoveSubscriber(th) ==
    /\ lock = "free"
    /\ \E k \in -1..MaxSubs :
         /\ \/ pth[th].pc = "idle" /\ ops < MaxOps
            \/ pth[th].pc = "in_cb" /\ k = pth[th].tok
         /\ subscribers' = IF 0 <= k /\ k < Len(subscribers)
                           THEN [subscribers EXCEPT ![k + 1] = None]
                           ELSE subscribers
         /\ pth' = [pth EXCEPT ![th] =
                      [pc |-> IF pth[th].pc = "in_cb" THEN "publishing" ELSE "idle",
                       idx |-> pth[th].idx, tok |-> k,
                       res |-> IF 0 <= k /\ k < Len(subscribers) THEN "true" ELSE "false",
                       n |-> IF pth[th].pc = "idle" THEN ops + 1 ELSE pth[th].n]]
    /\ ops' = IF pth[th].pc = "idle" THEN ops + 1 ELSE ops
    /\ UNCHANGED <<lock, got, live0, outsidePub>>

(* publish_metrics: with self._lock: the lock is taken                      *)
PublishBegin(th) ==
    /\ pth[th].pc = "idle"
    /\ lock = "free"
    /\ ops < MaxOps
    /\ lock' = th
    /\ pth' = [pth EXCEPT ![th] = [pc |-> "publishing", idx |-> 1, tok |-> 0, res |-> "none", n |-> ops + 1]]
    /\ got' = [i \in 1..MaxSubs |-> 0]
    /\ live0' = {i \in 1..Len(subscribers) : ~IsNone(subscribers[i])}
    /\ ops' = ops + 1
    /\ UNCHANGED <<subscribers, outsidePub>>

(* The fan-out without the try around the call: an exception of a callback *)
(* leaves publish_metrics (the with statement releases the lock).           *)
PublishStep_NoTry(th) ==
    /\ pth[th].pc = "publishing"
    /\ LET i == pth[th].idx IN
       IF i > Len(subscribers)
       THEN /\ lock' = "free"
            /\ pth' = [pth EXCEPT ![th] = [pc |-> "idle", idx |-> 0, tok |-> 0, res |-> "published", n |-> pth[th].n]]
            /\ got' = got
       ELSE IF IsNone(subscribers[i])
       THEN /\ lock' = lock
            /\ pth' = [pth EXCEPT ![th].idx = i + 1]
            /\ got' = got
       ELSE IF subscribers[i].beh = "raise"
       THEN /\ lock' = "free"
            /\ got' = [got EXCEPT ![i] = @ + 1]
            /\ pth' = [pth EXCEPT ![th] = [pc |-> "idle", idx |-> 0, tok |-> 0, res |-> "raised", n |-> pth[th].n]]
       ELSE /\ lock' = lock
            /\ got' = [got EXCEPT ![i] = @ + 1]
            /\ pth' = [pth EXCEPT ![th] =
                         IF subscribers[i].beh = "unsub"
                         THEN [@ EXCEPT !.pc = "in_cb", !.idx = i + 1, !.tok = subscribers[i].arg]
                         ELSE [@ EXCEPT !.idx = i + 1]]
    /\ UNCHANGED <<subscribers, live0, ops, outsidePub>>

(* for subscriber in self._subscribers: if subscriber is not None:          *)
(*     try: subscriber(metrics, timestamp)  except Exception: print(...)    *)
(* One list position: a None is skipped; the callback returns, or raises    *)
(* into the except clause, or calls remove_subscriber (and waits there for  *)
(* the lock).  Past the end of the list the with statement releases.        *)
PublishStep(th) ==
    /\ pth[th].pc = "publishing"
    /\ LET i == pth[th].idx IN
       IF i > Len(subscribers)
       THEN /\ lock' = "free"
            /\ pth' = [pth EXCEPT ![th] = [pc |-> "idle", idx |-> 0, tok |-> 0, res |-> "published", n |-> pth[th].n]]
            /\ got' = got
       ELSE IF IsNone(subscribers[i])
       THEN /\ lock' = lock
            /\ pth' = [pth EXCEPT ![th].idx = i + 1]
            /\ got' = got
       ELSE /\ lock' = lock
            /\ got' = [got EXCEPT ![i] = @ + 1]
            /\ pth' = [pth EXCEPT ![th] =
                         IF subscribers[i].beh = "unsub"
                         THEN [@ EXCEPT !.pc = "in_cb", !.idx = i + 1, !.tok = subscribers[i].arg]
                         ELSE [@ EXCEPT !.idx = i + 1]]
    /\ UNCHANGED <<subscribers, live0, ops, outsidePub>>

NextPub ==
    \/ \E th \in PubThreads : AddSubscriber(th)
    \/ \E th \in PubThreads : RemoveSubscriber(th)
    \/ \E th \in PubThreads : PublishBegin(th)
    \/ \E th \in PubThreads : PublishStep(th)

(* ------------------------------ BucketMonitor --------------------------- *)
(* monitor_gcs_transfer_rate leaves with value r (branch p); as __enter__   *)
(* (BucketMonitor overrides it) an exception ends the with statement        *)
(* without __exit__, a return lets the body run.                            *)
GcsReturns(c, r, p) ==
    IF call[c].ctx = "enter"
    THEN IF r = "raise"
         THEN [call[c] EXCEPT !.pc = "idle", !.op = "with", !.ret = "raise",
                              !.path = "enterfail", !.ctx = "none"]
         ELSE [call[c] EXCEPT !.pc = "body", !.ret = r, !.path = p, !.ctx = "body"]
    ELSE [call[c] EXCEPT !.pc = "idle", !.ret = r, !.path = p]

CallGcs(c) ==
    /\ BeginCall(c, "gcs", "g_check", "none")
    /\ UNCHANGED <<enabled, sampling_interval, monitoring_thread, stop_event, thr, sink, callers, bound>>
    /\ UNCHANGED <<probeVars, outsideProbe>>

(* with bucket_monitor: ...   __enter__ calls self.monitor_gcs_transfer_rate() *)
CallWithBucket(c) ==
    /\ BeginCall(c, "with", "g_check", "enter")
    /\ UNCHANGED <<enabled, sampling_interval, monitoring_thread, stop_event, thr, sink, callers, bound>>
    /\ UNCHANGED <<probeVars, outsideProbe>>

(* if self.transfer_thread and self.transfer_thread.is_alive(): return False *)
GcsCheck(c) ==
    /\ call[c].pc = "g_check"
    /\ call' = [call EXCEPT ![c] =
                  IF wk.st = "alive" THEN GcsReturns(c, "false", "already")
                  ELSE [call[c] EXCEPT !.pc = "g_reset"]]
    /\ UNCHANGED <<enabled, sampling_interval, monitoring_thread, stop_event, thr, sink, callers, calls, bound>>
    /\ UNCHANGED <<probeVars, outsideProbe>>

(* self.stop_transfer_test = False                                          *)
GcsReset(c) ==
    /\ call[c].pc = "g_reset"
    /\ stop_transfer_test' = FALSE
    /\ call' = [call EXCEPT ![c].pc = "g_launch"]
    /\ UNCHANGED <<enabled, sampling_interval, monitoring_thread, stop_event, thr, sink, callers, calls, bound>>
    /\ UNCHANGED <<wk, store, last_probe, outsideProbe>>

(* self.transfer_thread = threading.Thread(target=_monitoring_worker,       *)
(*                                         daemon=True); .start()           *)
GcsLaunch(c) ==
    /\ call[c].pc = "g_launch"
    /\ wk' = [NoWorker EXCEPT !.st = "alive"]
    /\ call' = [call EXCEPT ![c] = [@ EXCEPT !.pc = "g_super", !.ent = (call[c].ctx = "enter")]]
    /\ UNCHANGED <<enabled, sampling_interval, monitoring_thread, stop_event, thr, sink, callers, calls, bound>>
    /\ UNCHANGED <<stop_transfer_test, store, last_probe, outsideProbe>>

(* return super().start_monitoring(): no class of the hierarchy defines     *)
(* start_monitoring, so the attribute lookup raises AttributeError.         *)
GcsSuper(c) ==
    /\ call[c].pc = "g_super"
    /\ call' = [call EXCEPT ![c] = GcsReturns(c, "raise", "nosuper")]
    /\ UNCHANGED <<enabled, sampling_interval, monitoring_thread, stop_event, thr, sink, callers, calls, bound>>
    /\ UNCHANGED <<probeVars, outsideProbe>>

(* stop_monitoring_thread: its first statement,                             *)
(* result = super().stop_monitoring_thread(), raises AttributeError (no     *)
(* class defines it); the lines that set stop_transfer_test and join the    *)
(* transfer thread are never reached.                                       *)
CallStopMonitoringThread(c) ==
    /\ BeginCall(c, "smt", "m_super", "none")
    /\ UNCHANGED <<enabled, sampling_interval, monitoring_thread, stop_event, thr, sink, callers, bound>>
    /\ UNCHANGED <<probeVars, outsideProbe>>

SmtSuper(c) ==
    /\ call[c].pc = "m_super"
    /\ call' = [call EXCEPT ![c] = [@ EXCEPT !.pc = "idle", !.ret = "raise", !.path = "nosuper"]]
    /\ UNCHANGED <<enabled, sampling_interval, monitoring_thread, stop_event, thr, sink, callers, calls, bound>>
    /\ UNCHANGED <<probeVars, outsideProbe>>

(* _save_transfer_results(results): the list is written as one JSON file,   *)
(* or the write raises and the error is logged; n results, written or not.  *)
Saved(n, written) ==
    IF n = 0 THEN store
    ELSE [store EXCEPT !.persisted = IF written THEN @ + n ELSE @,
                       !.lost = IF written THEN @ ELSE @ + n,
                       !.batches = @ + 1]

(* The worker leaves its loop: if results: self._save_transfer_results(results) *)
WorkerEnds(written) ==
    /\ store' = Saved(wk.buf, written)
    /\ wk' = [st |-> "dead", pc |-> "end", buf |-> 0]

(* while not self.stop_transfer_test:                                       *)
WorkerTop ==
    /\ wk.st = "alive" /\ wk.pc = "top"
    /\ \E written \in BOOLEAN :
         IF stop_transfer_test
         THEN WorkerEnds(written)
         ELSE /\ wk' = [wk EXCEPT !.pc = "sleep1"]
              /\ store' = store
    /\ UNCHANGED <<stop_transfer_test, last_probe, monVars, outsideProbe>>

(* time.sleep(interval_minutes * 60); if self.stop_transfer_test: break     *)
WorkerSleep1 ==
    /\ wk.st = "alive" /\ wk.pc = "sleep1"
    /\ \E written \in BOOLEAN :
         IF stop_transfer_test
         THEN WorkerEnds(written)
         ELSE /\ wk' = [wk EXCEPT !.pc = "upload"]
              /\ store' = store
    /\ UNCHANGED <<stop_transfer_test, last_probe, monVars, outsideProbe>>

(* The worker with a time_gcs_operation that lets a failure escape as an    *)
(* exception: the worker's own except clause logs it and nothing is         *)
(* appended.                                                                *)
WorkerUpload_ProbeRaises ==
    /\ wk.st = "alive" /\ wk.pc = "upload"
    /\ store.appended < MaxProbes
    /\ \E how \in ProbeOutcomes("upload") :
         /\ last_probe' = TimeGcsOperation("upload", how)
         /\ wk' = [wk EXCEPT !.pc = "sleep2",
                             !.buf = IF how \in {"clean", "rmfail"} THEN @ + 1 ELSE @]
         /\ store' = [store EXCEPT !.appended = IF how \in {"clean", "rmfail"} THEN @ + 1 ELSE @]
    /\ UNCHANGED <<stop_transfer_test, monVars, outsideProbe>>

(* upload_result = self.time_gcs_operation("upload", ...);                  *)
(* results.append(upload_result): status "success" or "error", appended     *)
(* either way.                                                              *)
WorkerUpload ==
    /\ wk.st = "alive" /\ wk.pc = "upload"
    /\ store.appended < MaxProbes
    /\ \E how \in ProbeOutcomes("upload") :
         last_probe' = TimeGcsOperation("upload", how)
    /\ wk' = [wk EXCEPT !.pc = "sleep2", !.buf = @ + 1]
    /\ store' = [store EXCEPT !.appended = @ + 1]
    /\ UNCHANGED <<stop_transfer_test, monVars, outsideProbe>>

(* time.sleep(5); if self.stop_transfer_test: break                         *)
WorkerSleep2 ==
    /\ wk.st = "alive" /\ wk.pc = "sleep2"
    /\ \E written \in BOOLEAN :
         IF stop_transfer_test
         THEN WorkerEnds(written)
         ELSE /\ wk' = [wk EXCEPT !.pc = "download"]
              /\ store' = store
    /\ UNCHANGED <<stop_transfer_test, last_probe, monVars, outsideProbe>>

(* download_result = self.time_gcs_operation("download", ...);              *)
(* results.append(download_result)                                          *)
WorkerDownload ==
    /\ wk.st = "alive" /\ wk.pc = "download"
    /\ store.appended < MaxProbes
    /\ \E how \in ProbeOutcomes("download") :
         last_probe' = TimeGcsOperation("download", how)
    /\ wk' = [wk EXCEPT !.pc = "flush", !.buf = @ + 1]
    /\ store' = [store EXCEPT !.appended = @ + 1]
    /\ UNCHANGED <<stop_transfer_test, monVars, outsideProbe>>

(* if len(results) >= 10: self._save_transfer_results(results); results = [] *)
WorkerFlush ==
    /\ wk.st = "alive" /\ wk.pc = "flush"
    /\ \E written \in BOOLEAN :
         IF wk.buf >= FlushThreshold
         THEN /\ store' = Saved(wk.buf, written)
              /\ wk' = [wk EXCEPT !.pc = "top", !.buf = 0]
         ELSE /\ store' = store
              /\ wk' = [wk EXCEPT !.pc = "top"]
    /\ UNCHANGED <<stop_transfer_test, last_probe, monVars, outsideProbe>>

(* A BucketMonitor: start, stop, _monitoring_loop and __exit__ are          *)
(* SuperMonitor's; __enter__ is its own.                                    *)
NextProbe ==
    \/ \E c \in callers : CallStart(c)
    \/ \E c \in callers : StartEnabled(c)
    \/ \E c \in callers : StartAliveCheck(c)
    \/ \E c \in callers : StartClear(c)
    \/ \E c \in callers : StartNewThread(c)
    \/ \E c \in callers : StartDaemon(c)
    \/ \E c \in callers : StartLaunch(c)
    \/ \E c \in callers : CallStop(c)
    \/ \E c \in callers : StopCheck(c)
    \/ \E c \in callers : StopSet(c)
    \/ \E c \in callers : StopJoinBegin(c)
    \/ \E c \in callers : StopJoinEnd(c)
    \/ \E c \in callers : StopAliveCheck(c)
    \/ \E c \in callers : CallWithBucket(c)
    \/ \E c \in callers : WithBody(c)
    \/ \E c \in callers : CallGcs(c)
    \/ \E c \in callers : GcsCheck(c)
    \/ \E c \in callers : GcsReset(c)
    \/ \E c \in callers : GcsLaunch(c)
    \/ \E c \in callers : GcsSuper(c)
    \/ \E c \in callers : CallStopMonitoringThread(c)
    \/ \E c \in callers : SmtSuper(c)
    \/ \E t \in Tids : LoopTop(t)
    \/ \E t \in Tids : LoopCollect(t)
    \/ \E t \in Tids : LoopRecord(t)
    \/ \E t \in Tids : LoopPublish(t)
    \/ \E t \in Tids : LoopWait(t)
    \/ \E t \in Tids : LoopBreak(t)
    \/ WorkerTop
    \/ WorkerSleep1
    \/ WorkerUpload
    \/ WorkerSleep2
    \/ WorkerDownload
    \/ WorkerFlush

(* The transfer test alone: monitor_gcs_transfer_rate and its worker.       *)
NextTransfer ==
    \/ \E c \in callers : CallGcs(c)
    \/ \E c \in callers : GcsCheck(c)
    \/ \E c \in callers : GcsReset(c)
    \/ \E c \in callers : GcsLaunch(c)
    \/ \E c \in callers : GcsSuper(c)
    \/ WorkerTop
    \/ WorkerSleep1
    \/ WorkerUpload
    \/ WorkerSleep2
    \/ WorkerDownload
    \/ WorkerFlush

(* ------------------------------- TPUMonitor ----------------------------- *)
(* metrics = self.get_metrics() of a TPUMonitor: check_tpu_devices calls    *)
(* _get_tpu_utilization, which calls _run_command("lscpu | grep -i TPU");   *)
(* _run_command waits in process.communicate() with no timeout argument.    *)
(* The command exits and the metrics are returned, or get_metrics raises,   *)
(* or the command never exits and the thread stays in communicate() ("hung",*)
(* which no statement of the loop leaves).                                  *)
LoopCollectTpu(t) ==
    /\ thr[t].st = "alive" /\ thr[t].pc = "collect"
    /\ \E answer \in {"ok", "raise", "never"} :
         /\ (answer = "ok") => thr[t].step < bound.steps
         /\ thr' = [thr EXCEPT ![t] =
                      IF answer = "ok" THEN [@ EXCEPT !.pc = "record"]
                      ELSE IF answer = "raise" THEN [@ EXCEPT !.pc = "wait", !.failed = TRUE]
                      ELSE [@ EXCEPT !.pc = "hung"]]
    /\ UNCHANGED <<enabled, sampling_interval, monitoring_thread, stop_event, sink, callers, call, calls, bound, outsideMon>>

(* One step of the thread running a TPUMonitor's loop.                      *)
TpuLoopStep(t) ==
    \/ LoopTop(t)
    \/ LoopCollectTpu(t)
    \/ LoopRecord(t)
    \/ LoopPublish(t)
    \/ LoopWait(t)
    \/ LoopBreak(t)

NextTpu ==
    \/ \E c \in callers : CallStart(c)
    \/ \E c \in callers : StartEnabled(c)
    \/ \E c \in callers : StartAliveCheck(c)
    \/ \E c \in callers : StartClear(c)
    \/ \E c \in callers : StartNewThread(c)
    \/ \E c \in callers : StartDaemon(c)
    \/ \E c \in callers : StartLaunch(c)
    \/ \E c \in callers : CallStop(c)
    \/ \E c \in callers : StopCheck(c)
    \/ \E c \in callers : StopSet(c)
    \/ \E c \in callers : StopJoinBegin(c)
    \/ \E c \in callers : StopJoinEnd(c)
    \/ \E c \in callers : StopAliveCheck(c)
    \/ \E t \in Tids : TpuLoopStep(t)

(* ------------------- TPUMonitor.check_environment ----------------------- *)
(* Thread th calls get_metrics (monitor_env is on): the loop thread from    *)
(* _monitoring_loop, an application thread through get_metrics(),           *)
(* record_metrics(metrics=None) or save_metrics_for_api().                  *)
GetMetricsTpu(th) ==
    /\ tpu_env.pc[th] = "idle"
    /\ tpu_env.n < MaxSamples
    /\ tpu_env' = [tpu_env EXCEPT !.pc[th] = "counters", !.n = @ + 1]
    /\ UNCHANGED outsideEnv

(* cpu_percent(interval=1) ... net_io = psutil.net_io_counters(); the rates *)
(* are computed from self.prev_net_io and self.prev_net_time when both      *)
(* exist.  An exception of psutil leaves through the except clause, before  *)
(* the two assignments.                                                     *)
CheckEnvironmentRead(th) ==
    /\ tpu_env.pc[th] = "counters"
    /\ \E raised \in BOOLEAN :
         tpu_env' = [tpu_env EXCEPT !.pc[th] = IF raised THEN "idle" ELSE "w_io"]
    /\ UNCHANGED outsideEnv

(* self.prev_net_io = net_io                                                *)
StorePrevNetIo(th) ==
    /\ tpu_env.pc[th] = "w_io"
    /\ tpu_env' = [tpu_env EXCEPT !.prev_net_io = th, !.pc[th] = "w_time"]
    /\ UNCHANGED outsideEnv

(* self.prev_net_time = time.time(); return result                          *)
StorePrevNetTime(th) ==
    /\ tpu_env.pc[th] = "w_time"
    /\ tpu_env' = [tpu_env EXCEPT !.prev_net_time = th, !.pc[th] = "idle"]
    /\ UNCHANGED outsideEnv

NextEnv ==
    \/ \E th \in EnvThreads : GetMetricsTpu(th)
    \/ \E th \in EnvThreads : CheckEnvironmentRead(th)
    \/ \E th \in EnvThreads : StorePrevNetIo(th)
    \/ \E th \in EnvThreads : StorePrevNetTime(th)

(* --------------------- _monitoring_loop with time ----------------------- *)
(* while not self.stop_event.is_set(): start_time = time.time()             *)
TimedTop ==
    /\ clk.pc = "top"
    /\ clk.n < MaxIterations
    /\ clk' = [clk EXCEPT !.pc = "body", !.start_time = clk.now, !.n = @ + 1,
                          !.prev_start = clk.start_time,
                          !.prev_elapsed = clk.elapsed]
    /\ UNCHANGED outsideClock

(* get_metrics, record_metrics, publish_metrics (or the except clause):     *)
(* time passes.                                                             *)
TimedBody ==
    /\ clk.pc = "body"
    /\ \E d \in 0..MaxElapsedTicks :
         clk' = [clk EXCEPT !.pc = "compute", !.now = @ + d]
    /\ UNCHANGED outsideClock

(* elapsed = time.time() - start_time                                       *)
(* sleep_time = max(0, self.sampling_interval - elapsed)                    *)
TimedCompute ==
    /\ clk.pc = "compute"
    /\ LET elapsed == clk.now - clk.start_time IN
         clk' = [clk EXCEPT !.pc = "wait", !.elapsed = elapsed,
                            !.sleep_time = SleepTime(sampling_interval, elapsed)]
    /\ UNCHANGED outsideClock

(* if sleep_time > 0 and not self.stop_event.wait(sleep_time): continue     *)
(* (the event is not set: the wait lasts sleep_time; with nothing to wait   *)
(* for the loop goes on at once)                                            *)
TimedWait ==
    /\ clk.pc = "wait"
    /\ ~stop_event
    /\ clk' = [clk EXCEPT !.pc = "top", !.now = @ + clk.sleep_time]
    /\ UNCHANGED outsideClock

NextTimed == TimedTop \/ TimedBody \/ TimedCompute \/ TimedWait

(* --------------------------- CloudMonitoringClient ---------------------- *)
(* return self.available and self.client is not None                        *)
IsAvailable(cm) == cm.available /\ cm.client

CallIsAvailable ==
    /\ cloud_monitor.queries < MaxQueries
    /\ cloud_monitor' = [cloud_monitor EXCEPT
                            !.queries = @ + 1,
                            !.avail = IF IsAvailable(cloud_monitor) THEN "true" ELSE "false"]
    /\ UNCHANGED outsideCloud

(* A get_metric_data that creates the client when it finds none, instead of *)
(* returning None.                                                          *)
GetMetricData_Reconnect ==
    /\ cloud_monitor.queries < MaxQueries
    /\ \E answer \in {"data", "unreachable"} :
         cloud_monitor' = [cloud_monitor EXCEPT
                             !.queries = @ + 1,
                             !.available = TRUE, !.client = TRUE, !.project_name = TRUE,
                             !.contacts = @ + 1,
                             !.ret = IF answer = "data" THEN "data" ELSE "nil",
                             !.unreachable = @ \/ answer = "unreachable"]
    /\ UNCHANGED outsideCloud

(* get_metric_data: if not self.is_available() or not self.project_name:    *)
(* return None.  Otherwise the request is sent (client.list_time_series):   *)
(* the series are returned as a dict, or the call raises (backend           *)
(* unreachable) and the except clause logs and returns None.  Neither       *)
(* branch assigns self.available or self.client.                            *)
GetMetricData ==
    /\ cloud_monitor.queries < MaxQueries
    /\ \E answer \in {"data", "unreachable"} :
         cloud_monitor' =
            IF ~IsAvailable(cloud_monitor) \/ ~cloud_monitor.project_name
            THEN [cloud_monitor EXCEPT !.queries = @ + 1, !.ret = "nil"]
            ELSE [cloud_monitor EXCEPT
                     !.queries = @ + 1,
                     !.contacts = @ + 1,
                     !.ret = IF answer = "data" THEN "data" ELSE "nil",
                     !.unreachable = @ \/ answer = "unreachable"]
    /\ UNCHANGED outsideCloud

NextCloud ==
    \/ CallIsAvailable
    \/ GetMetricData

(* ------------------- start_monitoring.py: the registry ------------------ *)
(* def start_monitoring(...): global monitors; try:                         *)
CallStartMonitoring ==
    /\ drv.pc = "idle"
    /\ drv.n < MaxDriverCalls
    /\ drv' = [IdleDriver EXCEPT !.pc = "sm_reset", !.op = "start_monitoring", !.n = drv.n + 1]
    /\ UNCHANGED <<monitors, comp, outsideReg>>

(* monitors = {}                                                            *)
SmReset ==
    /\ drv.pc = "sm_reset"
    /\ monitors' = <<>>
    /\ drv' = [drv EXCEPT !.pc = "sm_super"]
    /\ UNCHANGED <<comp, outsideReg>>

(* super_monitor = SuperMonitor(interval=int(interval), log_dir=...):       *)
(* SuperMonitor.__init__(self, name, log_dir, sampling_interval, config,    *)
(* config_path) has no parameter interval and requires name, so the call    *)
(* raises TypeError; the function's except clause logs it and returns {}.   *)
(* The statements after the call (add_monitor, the start loop) do not run.  *)
SmConstructSuper ==
    /\ drv.pc = "sm_super"
    /\ drv' = [drv EXCEPT !.pc = "idle", !.ret = "empty"]
    /\ UNCHANGED <<monitors, comp, outsideReg>>

(* def stop_monitoring(): global monitors                                   *)
CallStopMonitoring ==
    /\ drv.pc = "idle"
    /\ drv.n < MaxDriverCalls
    /\ drv' = [IdleDriver EXCEPT !.pc = "st_check", !.op = "stop_monitoring", !.n = drv.n + 1]
    /\ UNCHANGED <<monitors, comp, outsideReg>>

(* if not monitors: return False     success = True                         *)
StCheck ==
    /\ drv.pc = "st_check"
    /\ drv' = IF monitors = <<>>
              THEN [drv EXCEPT !.pc = "idle", !.ret = "false"]
              ELSE [drv EXCEPT !.pc = "st_loop", !.i = 1, !.success = TRUE]
    /\ UNCHANGED <<monitors, comp, outsideReg>>

(* What monitor.stop() yields for registered monitor m: SuperMonitor.stop   *)
(* returns True when no loop is running or the thread ended within the      *)
(* join, False when the thread outlived it.                                 *)
StopOf(m) ==
    IF ~comp[m].running THEN "true"
    ELSE IF comp[m].onstop = "clean" THEN "true"
    ELSE IF comp[m].onstop = "timeout" THEN "false"
    ELSE "raise"

(* for name, monitor in monitors.items():                                   *)
(*     try: monitor.stop()                                                  *)
(*     except Exception: success = False                                    *)
(* monitors = {}; return success                                            *)
(* The value monitor.stop() returns is not used.                            *)
StLoop ==
    /\ drv.pc = "st_loop"
    /\ IF drv.i > Len(monitors)
       THEN /\ monitors' = <<>>
            /\ comp' = comp
            /\ drv' = [drv EXCEPT !.pc = "idle", !.ret = IF drv.success THEN "true" ELSE "false"]
       ELSE LET m == monitors[drv.i] IN
            /\ monitors' = monitors
            /\ comp' = [comp EXCEPT ![m].running = IF StopOf(m) = "true" THEN FALSE ELSE @]
            /\ drv' = [drv EXCEPT !.i = @ + 1,
                                  !.res = Append(@, StopOf(m)),
                                  !.success = IF StopOf(m) = "raise" THEN FALSE ELSE @]
    /\ UNCHANGED outsideReg

NextRegistry ==
    \/ CallStartMonitoring
    \/ SmReset
    \/ SmConstructSuper
    \/ CallStopMonitoring
    \/ StCheck
    \/ StLoop

(* ------------------------------ Next ------------------------------------ *)
Next ==
    \/ \E c \in callers : CallStart(c)
    \/ \E c \in callers : StartEnabled(c)
    \/ \E c \in callers : StartAliveCheck(c)
    \/ \E c \in callers : StartClear(c)
    \/ \E c \in callers : StartNewThread(c)
    \/ \E c \in callers : StartDaemon(c)
    \/ \E c \in callers : StartLaunch(c)
    \/ \E c \in callers : CallStop(c)
    \/ \E c \in callers : StopCheck(c)
    \/ \E c \in callers : StopSet(c)
    \/ \E c \in callers : StopJoinBegin(c)
    \/ \E c \in callers : StopJoinEnd(c)
    \/ \E c \in callers : StopAliveCheck(c)
    \/ \E c \in callers : CallWith(c)
    \/ \E c \in callers : WithBody(c)
    \/ \E t \in Tids : LoopTop(t)
    \/ \E t \in Tids : LoopCollect(t)
    \/ \E t \in Tids : LoopRecord(t)
    \/ \E t \in Tids : LoopPublish(t)
    \/ \E t \in Tids : LoopWait(t)
    \/ \E t \in Tids : LoopBreak(t)

Spec == Init /\ [][Next]_vars

SpecConc == InitConc /\ [][Next]_vars

(* One BucketMonitor, enabled, used by one calling thread.                  *)
InitProbe ==
    /\ InitMonitor
    /\ InitPublisher
    /\ InitTpuEnv
    /\ InitClock
    /\ InitTransfer
    /\ InitRegistry
    /\ enabled = TRUE
    /\ sampling_interval = MaxInterval
    /\ callers = {1}
    /\ bound = [calls |-> MaxCallsProbe, steps |-> MaxStepProbe, threads |-> MaxThreadsProbe]

SpecProbe == InitProbe /\ [][NextProbe]_vars

SpecTransfer == InitProbe /\ [][NextTransfer]_vars

(* The registry as a user of the module finds it: monitors holds up to      *)
(* MaxMonitors monitors in the order they were added, each with its loop    *)
(* running or not.  (The module imported and start_monitoring() called      *)
(* leaves it empty.)                                                        *)
InitRegistered ==
    /\ InitMonitor
    /\ InitPublisher
    /\ InitTpuEnv
    /\ InitClock
    /\ InitTransfer
    /\ enabled = TRUE
    /\ sampling_interval = MaxInterval
    /\ callers = {1}
    /\ bound = [calls |-> 0, steps |-> 0, threads |-> 0]
    /\ \E k \in 0..MaxMonitors : monitors = [j \in 1..k |-> j]
    /\ comp \in [1..MaxMonitors -> [running : BOOLEAN, onstop : StopBehaviours]]
    /\ drv = IdleDriver

SpecRegistry == InitRegistered /\ [][NextRegistry]_vars

(* One CloudMonitoringClient, constructed with or without the libraries,    *)
(* a working client constructor and a project id.                           *)
InitCloud ==
    /\ InitPublisher
    /\ InitTpuEnv
    /\ InitClock
    /\ InitTransfer
    /\ InitRegistry
    /\ enabled = TRUE
    /\ sampling_interval = MaxInterval
    /\ monitoring_thread = 0
    /\ stop_event = FALSE
    /\ thr = [t \in Tids |-> NoThread]
    /\ sink = [last |-> -1, prev |-> -1]
    /\ call = [c \in AllCallers |-> IdleCall]
    /\ calls = 0
    /\ callers = {1}
    /\ bound = [calls |-> 0, steps |-> 0, threads |-> 0]
    /\ \E libs \in BOOLEAN, made \in BOOLEAN, project \in BOOLEAN :
         cloud_monitor = CloudMonitoringClient(libs, made, project)

SpecCloud == InitCloud /\ [][NextCloud]_vars

(* One enabled monitor and one calling thread, for the properties of        *)
(* progress.                                                                *)
InitLive ==
    /\ InitMonitor
    /\ InitPublisher
    /\ InitTpuEnv
    /\ InitClock
    /\ InitTransfer
    /\ InitRegistry
    /\ enabled = TRUE
    /\ callers = {1}
    /\ bound = [calls |-> MaxCallsLive, steps |-> MaxStepLive, threads |-> MaxThreadsLive]

(* A started thread that can take a step eventually takes one (the          *)
(* interpreter schedules every runnable thread).                            *)
SpecLive == InitLive /\ [][Next]_vars /\ \A t \in Tids : WF_vars(LoopStep(t))

SpecTpu == InitLive /\ [][NextTpu]_vars /\ \A t \in Tids : WF_vars(TpuLoopStep(t))

(* A TPUMonitor with monitor_env on, its loop and an application thread     *)
(* calling get_metrics.                                                     *)
SpecEnv == InitLive /\ [][NextEnv]_vars

(* A loop started on a Monitor with any sampling_interval of 0 to           *)
(* MaxIntervalTicks ticks.                                                  *)
InitTimed ==
    /\ InitPublisher
    /\ InitTransfer
    /\ InitRegistry
    /\ InitTpuEnv
    /\ InitClock
    /\ enabled = TRUE
    /\ sampling_interval \in 0..MaxIntervalTicks
    /\ monitoring_thread = 0
    /\ stop_event = FALSE
    /\ thr = [t \in Tids |-> NoThread]
    /\ sink = [last |-> -1, prev |-> -1]
    /\ call = [c \in AllCallers |-> IdleCall]
    /\ calls = 0
    /\ callers = {1}
    /\ bound = [calls |-> 0, steps |-> 0, threads |-> 0]
    /\ cloud_monitor = CloudMonitoringClient(FALSE, FALSE, FALSE)

SpecTimed == InitTimed /\ [][NextTimed]_vars

(* One publisher, its monitor idle.                                         *)
InitPub ==
    /\ Init
    /\ enabled = TRUE
    /\ sampling_interval = MaxInterval

SpecPub == InitPub /\ [][NextPub]_vars

(* ======================= properties of the monitor ====================== *)

(* C1: two sampling-loop threads of one Monitor are never alive at the same *)
(* time, whatever the interleaving of concurrent start() calls.             *)
C1_AtMostOneLoop == Cardinality(AliveThreads) <= 1

(* C2: a stop() whose join timed out returns False and does not raise; the  *)
(* stop signal then stays set for as long as that thread lives, and the     *)
(* thread begins no new collection: it ends at its next test of the signal. *)
C2_TimedOutState ==
    /\ \A c \in callers : call[c].op = "stop" => call[c].ret # "raise"
    /\ \A c \in callers : (call[c].op = "stop" /\ call[c].path = "timeout") => call[c].ret = "false"
    /\ \A t \in Tids : (thr[t].sr /\ thr[t].st = "alive") => stop_event

C2_TimedOutStep ==
    \A t \in Tids :
       (thr[t].sr /\ thr[t].st = "alive" /\ thr'[t].pc # thr[t].pc) =>
          \/ thr'[t].st = "dead"
          \/ thr[t].pc \in {"collect", "record", "publish"} /\ thr'[t].pc \in {"record", "publish", "wait"}
          \/ thr[t].pc = "wait" /\ thr'[t].pc = "brk"

C2_StopTimeout == [](C2_TimedOutState) /\ [][C2_TimedOutStep]_vars

C2_Witness ==
    \E c \in callers :
       /\ call[c].pc = "idle" /\ call[c].op = "stop"
       /\ call[c].path = "timeout" /\ call[c].ret = "false"
       /\ IsAlive(monitoring_thread)
       /\ thr[monitoring_thread].pc = "publish"

(* C5: an iteration whose get_metrics fails leaves the loop running: the    *)
(* thread goes to its wait with its step unchanged, and a loop thread ends  *)
(* only in a step that finds the stop signal set.                           *)
C5_FailStep ==
    \A t \in Tids :
       /\ (thr[t].st = "alive" /\ thr'[t].st # "alive") => (thr'[t].st = "dead" /\ stop_event)
       /\ (thr[t].st = "alive" /\ thr[t].pc = "collect" /\ thr'[t].pc \notin {"collect", "record"}) =>
             (thr'[t].st = "alive" /\ thr'[t].pc = "wait" /\ thr'[t].failed /\ thr'[t].step = thr[t].step)

C5_BadIterationKeepsLoop == [][C5_FailStep]_vars

(* The iteration after a failed one has collected and recorded its batch.   *)
C5_Witness ==
    \E t \in Tids :
       /\ thr[t].st = "alive" /\ thr[t].failed /\ thr[t].pc = "publish"
       /\ sink.last = thr[t].step /\ ~stop_event

(* C9: start() on a Monitor whose loop is running returns True in the step  *)
(* that finds the thread alive, touching neither the event nor any thread;  *)
(* the Monitor never has more than one sampling thread.                     *)
C9_AlreadyStep ==
    \A c \in callers :
       (call[c].pc = "s_alive" /\ IsAlive(monitoring_thread) /\ call'[c] # call[c]) =>
          /\ call'[c].ret = "true" /\ call'[c].path = "already"
          /\ UNCHANGED <<stop_event, monitoring_thread, thr>>

C9_StartWhileRunning == [](Cardinality(AliveThreads) <= 1) /\ [][C9_AlreadyStep]_vars

C9_Witness ==
    \E c \in callers :
       /\ call[c].pc = "idle" /\ call[c].op = "start" /\ call[c].path = "already"
       /\ call[c].ret = "true"
       /\ Cardinality(AliveThreads) = 1 /\ ~stop_event

(* C10: stop() on a Monitor that is not running returns True in the step    *)
(* that finds no live thread, without signalling or joining and without     *)
(* changing the Monitor; a stop() right after a stop() that returned True   *)
(* returns True.                                                            *)
C10_NotRunningStep ==
    \A c \in callers :
       (call[c].pc = "p_check" /\ ~IsAlive(monitoring_thread) /\ call'[c] # call[c]) =>
          /\ call'[c].pc = "idle" /\ call'[c].ret = "true" /\ call'[c].path = "notrunning"
          /\ UNCHANGED <<stop_event, monitoring_thread, thr>>

C10_Twice ==
    \A c \in callers :
       (call[c].pc = "idle" /\ call[c].op = "stop" /\ call[c].pop = "stop" /\ call[c].pret = "true")
          => (call[c].ret = "true" /\ call[c].path = "notrunning")

C10_StopIdempotent == [](C10_Twice) /\ [][C10_NotRunningStep]_vars

(* A second stop() in a row, after a loop that ran was stopped cleanly.     *)
C10_Witness ==
    \E c \in callers :
       /\ call[c].pc = "idle" /\ call[c].op = "stop" /\ call[c].pop = "stop"
       /\ call[c].pret = "true" /\ call[c].ret = "true"
       /\ monitoring_thread # 0 /\ thr[monitoring_thread].st = "dead"

(* C11: start() on a Monitor whose enabled flag is false returns False in   *)
(* the step that tests the flag, touching neither the event nor any thread; *)
(* a disabled Monitor never has a Thread object, and every start() it has   *)
(* answered returned False.                                                 *)
C11_DisabledStep ==
    \A c \in callers :
       (call[c].pc = "s_enabled" /\ ~enabled /\ call'[c] # call[c]) =>
          /\ call'[c].ret = "false" /\ call'[c].path = "disabled"
          /\ UNCHANGED <<stop_event, monitoring_thread, thr>>

C11_DisabledState ==
    ~enabled =>
       /\ Created = 0 /\ monitoring_thread = 0 /\ AliveThreads = {}
       /\ \A c \in callers : (call[c].pc = "idle" /\ call[c].op = "start") => call[c].ret = "false"

C11_StartDisabled == [](C11_DisabledState) /\ [][C11_DisabledStep]_vars

(* A disabled Monitor has answered a second start().                        *)
C11_Witness ==
    \E c \in callers :
       /\ ~enabled /\ call[c].pc = "idle" /\ call[c].op = "start" /\ call[c].ret = "false"
       /\ call[c].pop = "start" /\ call[c].pret = "false"
       /\ Created = 0 /\ ~stop_event

(* C12: every batch written to the sink carries a step strictly larger than *)
(* the step of every batch the Monitor wrote before it, across start() and  *)
(* stop() calls.                                                            *)
C12_StrictSteps == sink.last = -1 \/ sink.prev < sink.last

(* C19: whether or not the write to the sink succeeds, record_metrics       *)
(* returns normally: the loop goes from the record to the publish of the    *)
(* same iteration with its step unchanged, and from the publish to the wait *)
(* with the step incremented and no error logged by the iteration.          *)
C19_RecordStep ==
    \A t \in Tids :
       /\ (thr[t].st = "alive" /\ thr[t].pc = "record" /\ thr'[t].pc # "record") =>
             /\ thr'[t].st = "alive" /\ thr'[t].pc = "publish"
             /\ thr'[t].step = thr[t].step /\ thr'[t].failed = thr[t].failed
       /\ (thr[t].st = "alive" /\ thr[t].pc = "publish" /\ thr'[t].pc # "publish") =>
             /\ thr'[t].st = "alive" /\ thr'[t].pc = "wait"
             /\ thr'[t].step = thr[t].step + 1 /\ ~thr'[t].failed

C19_SinkFailureContained == [][C19_RecordStep]_vars

(* The first iteration's write failed (the sink holds nothing), yet the     *)
(* iteration published and incremented its step.                            *)
C19_Witness ==
    \E t \in Tids :
       /\ thr[t].st = "alive" /\ thr[t].pc = "wait" /\ thr[t].step = 1
       /\ ~thr[t].failed /\ sink.last = -1 /\ Created = 1

(* C20: no sampling loop runs on a Monitor whose sampling_interval is not   *)
(* positive (such a Monitor would not have been constructed).               *)
C20_PositiveInterval ==
    \A t \in Tids : thr[t].st = "alive" => sampling_interval > 0

C24_SignalledStep ==
    \A t \in Tids :
       (stop_event /\ thr[t].st = "alive" /\ thr'[t].pc # thr[t].pc) =>
          /\ thr[t].pc \in {"top", "brk"} => thr'[t].st = "dead"
          /\ thr[t].pc = "wait" => (thr'[t].st = "alive" /\ thr'[t].pc = "brk")
          /\ thr[t].pc \in {"collect", "record", "publish"} =>
                (thr'[t].st = "alive" /\ thr'[t].pc \in {"record", "publish", "wait"})

C24_StopObserved ==
    /\ [][C24_SignalledStep]_vars
    /\ \A t \in Tids : (stop_event /\ thr[t].st = "alive") ~> (thr[t].st = "dead")

(* A stop() that found the loop inside an iteration has joined it.          *)
C24_Witness ==
    \E c \in callers :
       /\ call[c].pc = "idle" /\ call[c].op = "stop" /\ call[c].path = "stopped"
       /\ stop_event /\ monitoring_thread # 0 /\ thr[monitoring_thread].st = "dead"
       /\ sink.last = 0

(* C25: while the last call on a Monitor is a start() that returned True,   *)
(* the Monitor's sampling thread is alive.                                  *)
C25_StartedKeepsRunning ==
    \A c \in callers :
       (call[c].pc = "idle" /\ call[c].op = "start" /\ call[c].ret = "true")
          => IsAlive(monitoring_thread)

(* C27: a start() that follows a stop() that returned True launches a new   *)
(* thread with the stop signal cleared and returns True; while it is the    *)
(* last call the thread stays alive with the signal clear, and the thread   *)
(* comes to collect a sample.                                               *)
C27_Restarted ==
    \E c \in callers :
       /\ call[c].pc = "idle" /\ call[c].op = "start"
       /\ call[c].pop = "stop" /\ call[c].pret = "true"

C27_LaunchStep ==
    \A t \in Tids :
       (thr[t].st = "new" /\ thr'[t].st = "alive") => (~stop_event /\ ~stop_event')

C27_RestartAfterStop ==
    /\ [](C27_Restarted =>
            /\ \A c \in callers : call[c].ret = "true" /\ call[c].path = "launched"
            /\ ~stop_event
            /\ IsAlive(monitoring_thread))
    /\ [][C27_LaunchStep]_vars
    /\ C27_Restarted ~> (~C27_Restarted \/ thr[monitoring_thread].pc = "collect")

(* The restarted loop has collected a sample and is recording it.           *)
C27_Witness ==
    /\ C27_Restarted
    /\ monitoring_thread = 2 /\ thr[1].st = "dead"
    /\ thr[2].st = "alive" /\ thr[2].pc = "record"

(* C26: in the step in which a stop() returns True no sampling thread is    *)
(* alive and none has been created and is waiting to be started.            *)
C26_ReturnStep ==
    \A c \in callers :
       (call[c].op = "stop" /\ call[c].pc # "idle"
          /\ call'[c].pc = "idle" /\ call'[c].ret = "true")
       => \A t \in Tids : thr'[t].st \notin {"new", "alive"}

C26_StopMeansStopped == [][C26_ReturnStep]_vars

(* C29: self.prev_net_io and self.prev_net_time have been assigned by the   *)
(* Monitor's loop thread or not at all.                                     *)
C29_LoopThreadOnly ==
    /\ tpu_env.prev_net_io \in {"unset", "loop"}
    /\ tpu_env.prev_net_time \in {"unset", "loop"}

(* C30: the wait computed in an iteration is max(0, sampling_interval -     *)
(* elapsed): it is not negative, it is 0 when the iteration took            *)
(* sampling_interval or longer, and when the previous iteration took less   *)
(* the next one starts exactly sampling_interval after it.                  *)
C30_ElapsedAwareWait ==
    /\ clk.sleep_time >= 0
    /\ clk.pc = "wait" =>
          /\ clk.elapsed = clk.now - clk.start_time
          /\ clk.sleep_time = Max(0, sampling_interval - clk.elapsed)
          /\ clk.elapsed >= sampling_interval => clk.sleep_time = 0
    /\ (clk.pc = "body" /\ clk.n >= 2) =>
          clk.start_time - clk.prev_start =
             IF clk.prev_elapsed < sampling_interval
             THEN sampling_interval ELSE clk.prev_elapsed

(* A second iteration began sampling_interval after the first although the  *)
(* first took time, and a third began late after a slow second.             *)
C30_Witness ==
    /\ clk.pc = "body" /\ clk.n = 3
    /\ sampling_interval = 3
    /\ clk.prev_elapsed = 4 /\ clk.start_time = 7 /\ clk.prev_start = 3

(* ====================== properties of the registry ====================== *)

(* C13: when start_monitoring() has returned, the composite's own monitor   *)
(* is registered and running and every registered monitor was started.      *)
C13_CascadeStart ==
    (drv.pc = "idle" /\ drv.op = "start_monitoring") =>
       /\ Len(monitors) >= 1
       /\ \A j \in 1..Len(monitors) : comp[monitors[j]].running

C3_UnsubscribeInCallback ==
    \A th \in PubThreads :
       ( /\ Len(subscribers) = 3
         /\ subscribers[1].beh = "unsub" /\ subscribers[1].arg = 1
         /\ pth[th].pc = "in_cb" /\ pth[th].idx = 2 )
       => ENABLED RemoveSubscriber(th)

(* C4: publish_metrics is never left by an exception, and when it has       *)
(* returned, every slot that held a callback when the fan-out began and     *)
(* whose callback does not raise was called exactly once (slots holding     *)
(* None were not called).                                                   *)
C4_FaultIsolation ==
    /\ \A th \in PubThreads : pth[th].res # "raised"
    /\ (lock = "free" /\ \E th \in PubThreads : pth[th].res = "published") =>
          \A i \in 1..MaxSubs :
             IF i \in live0
             THEN subscribers[i].beh # "raise" => got[i] = 1
             ELSE got[i] = 0

(* Three subscribers, the second raising: the first and the third got the   *)
(* batch once.                                                              *)
C4_Witness ==
    /\ lock = "free" /\ pth["loop"].res = "published"
    /\ Len(subscribers) = 3 /\ live0 = {1, 2, 3}
    /\ subscribers[1].beh = "ok" /\ subscribers[2].beh = "raise" /\ subscribers[3].beh = "ok"
    /\ got[1] = 1 /\ got[3] = 1

(* C17: remove_subscriber(k) returns False exactly when k is out of range;  *)
(* otherwise slot k becomes None while the list keeps its length and every  *)
(* other slot.  A None slot stays None, a publish calls only the slots that *)
(* held a callback when it began, and a publish that has returned called    *)
(* each of those once.                                                      *)
C17_RemoveStep ==
    \A th \in PubThreads :
       (ops' = ops + 1 /\ pth'[th].n = ops' /\ pth'[th].res \in {"true", "false"}) =>
          LET k == pth'[th].tok
              inrange == 0 <= k /\ k < Len(subscribers)
          IN /\ (pth'[th].res = "false") <=> ~inrange
             /\ Len(subscribers') = Len(subscribers)
             /\ \A i \in 1..Len(subscribers) : i # k + 1 => subscribers'[i] = subscribers[i]
             /\ inrange => IsNone(subscribers'[k + 1])

C17_TombstoneStays ==
    \A i \in 1..Len(subscribers) :
       IsNone(subscribers[i]) => (i <= Len(subscribers') /\ IsNone(subscribers'[i]))

C17_PublishSkipsRemoved ==
    /\ \A i \in 1..MaxSubs : got[i] > 0 => i \in live0
    /\ \A th \in PubThreads : pth[th].pc = "publishing" =>
          live0 = {i \in 1..Len(subscribers) : ~IsNone(subscribers[i])}
    /\ (lock = "free" /\ \E th \in PubThreads : pth[th].res = "published") =>
          \A i \in live0 : got[i] = 1

C17_Unsubscribe ==
    /\ [](C17_PublishSkipsRemoved)
    /\ [][C17_RemoveStep /\ C17_TombstoneStays]_vars

(* Three subscribers, the second removed by a call that returned True, then *)
(* a publish that returned: the first and the third were called, the second *)
(* was not.                                                                 *)
C17_Witness ==
    /\ Len(subscribers) = 3 /\ IsNone(subscribers[2])
    /\ ~IsNone(subscribers[1]) /\ ~IsNone(subscribers[3])
    /\ pth["app"].res = "true" /\ pth["app"].tok = 1
    /\ pth["loop"].res = "published" /\ pth["loop"].n > pth["app"].n
    /\ lock = "free" /\ got[1] = 1 /\ got[2] = 0 /\ got[3] = 1

(* C18: add_subscriber returns the length of the list, which never shrinks, *)
(* so no id is returned twice; slots are only ever overwritten by None: the *)
(* slot of id k holds the callback id k was returned for, or None.          *)
C18_AddStep ==
    \A th \in PubThreads :
       (ops' = ops + 1 /\ pth'[th].n = ops' /\ pth'[th].res = "id") =>
          /\ pth'[th].tok = Len(subscribers)
          /\ Len(subscribers') = Len(subscribers) + 1
          /\ subscribers'[pth'[th].tok + 1].cb = pth'[th].tok + 1

C18_NoCompaction ==
    /\ Len(subscribers') >= Len(subscribers)
    /\ \A i \in 1..Len(subscribers) :
          i <= Len(subscribers') /\ (subscribers'[i] = subscribers[i] \/ IsNone(subscribers'[i]))

C18_SlotOwner ==
    \A i \in 1..Len(subscribers) : IsNone(subscribers[i]) \/ subscribers[i].cb = i

C18_StableTokens ==
    /\ [](C18_SlotOwner)
    /\ [][C18_AddStep /\ C18_NoCompaction]_vars

(* A subscription made after a removal got a fresh id, and the removed slot *)
(* is still there as None.                                                  *)
C18_Witness ==
    /\ Len(subscribers) = 3 /\ IsNone(subscribers[1])
    /\ subscribers[3].cb = 3
    /\ pth["app"].res = "id" /\ pth["app"].tok = 2
    /\ pth["loop"].res = "true" /\ pth["loop"].tok = 0 /\ pth["loop"].n < pth["app"].n

(* ==================== properties of the BucketMonitor =================== *)

(* C6: when stop() has returned True on a BucketMonitor whose sampling loop *)
(* it found running, neither the sampling thread nor the transfer thread is *)
(* still running.                                                           *)
C6_StopJoinsBoth ==
    \A c \in callers :
       (call[c].pc = "idle" /\ call[c].op = "stop" /\ call[c].ret = "true" /\ call[c].path = "stopped")
          => (AliveThreads = {} /\ wk.st # "alive")

(* C7: when stop() has returned True on a BucketMonitor, the results its    *)
(* transfer thread had buffered have been written by a final flush: the     *)
(* buffer is empty and every appended result was persisted.                 *)
C7_FinalFlush ==
    \A c \in callers :
       (call[c].pc = "idle" /\ call[c].op = "stop" /\ call[c].ret = "true" /\ call[c].path = "stopped")
          => (wk.buf = 0 /\ store.persisted = store.appended)

(* C8: a with statement that has been left, and whose __enter__ launched a  *)
(* thread, has called stop() in its __exit__.                               *)
C8_ScopedStop ==
    \A c \in callers :
       (call[c].pc = "idle" /\ call[c].op = "with" /\ call[c].ent) => call[c].path \in StopPaths

(* C15: a transfer probe that has returned has removed the scratch file and *)
(* the remote object it created, or has at least run its cleanup; whether   *)
(* it succeeded or failed.                                                  *)
C15_CleanupAlways ==
    last_probe.op # "none" =>
       \/ last_probe.cleaned
       \/ ~last_probe.local /\ ~last_probe.remote

(* C16: a probe step of the worker never ends the worker: whatever happens  *)
(* during time_gcs_operation, a result is appended to the buffer and the    *)
(* worker goes on to its next step; a failed probe's result has status      *)
(* "error".                                                                 *)
C16_ProbeStep ==
    (wk.st = "alive" /\ wk.pc \in {"upload", "download"} /\ wk' # wk) =>
       /\ wk'.st = "alive"
       /\ wk'.buf = wk.buf + 1
       /\ wk'.pc = IF wk.pc = "upload" THEN "sleep2" ELSE "flush"
       /\ last_probe'.op = wk.pc
       /\ last_probe'.status = IF last_probe'.how \in {"clean", "rmfail"} THEN "success" ELSE "error"

C16_FailedProbeRecorded == [][C16_ProbeStep]_vars

(* Both probes of one iteration failed, both results are in the buffer, and *)
(* the worker is back at the top of its loop.                               *)
C16_Witness ==
    /\ wk.st = "alive" /\ wk.pc = "top" /\ wk.buf = 2
    /\ last_probe.op = "download" /\ last_probe.status = "error"
    /\ store.appended = 2

(* C28: every result appended to the worker's buffer is in the buffer or in *)
(* a batch that was written; none has been dropped.                         *)
C28_PersistedOnce ==
    /\ store.lost = 0
    /\ store.appended = store.persisted + wk.buf

(* ================= properties of the CloudMonitoringClient ============== *)

(* C21: a client whose initialisation failed is never available, sends no   *)
(* request, and every get_metric_data on it returns None.                   *)
C21_InitFailureIsFinal ==
    cloud_monitor.initfail =>
       /\ ~IsAvailable(cloud_monitor)
       /\ cloud_monitor.avail # "true"
       /\ cloud_monitor.contacts = 0
       /\ cloud_monitor.ret \in {"none", "nil"}

(* The libraries are there, the client constructor raised; two queries and  *)
(* an is_available() later.                                                 *)
C21_Witness ==
    /\ cloud_monitor.initfail /\ cloud_monitor.available
    /\ cloud_monitor.queries >= 3 /\ cloud_monitor.ret = "nil"
    /\ cloud_monitor.avail = "false" /\ cloud_monitor.contacts = 0

(* C22: once a query has found the backend unreachable the client is no     *)
(* longer available.                                                        *)
C22_PermanentDegrade ==
    cloud_monitor.unreachable => ~IsAvailable(cloud_monitor)

====
